---- MODULE Spec2Model ----
(***************************************************************************)
(* Remote-session gateway: the credential store and the connection         *)
(* registry of ssh-manager, with the idle reaper, the transport events of  *)
(* ssh2 clients and the request handlers that use the registry; the        *)
(* terminal bridge of routes (duplex connections, local shells, remote     *)
(* shell channels) and its message handlers; the batch endpoints of        *)
(* routes (copy, move, cross-host transfer) and its single-path file       *)
(* endpoints.                                                              *)
(*                                                                         *)
(* Node runs every synchronous stretch of code to completion, so each      *)
(* action is one such stretch: a whole synchronous function, or the part   *)
(* of an async function between two awaits.                                *)
(***************************************************************************)
EXTENDS Integers, Sequences, FiniteSets, TLC

\* ---------------------------------------------------------------- bounds
MaxTransports == 2      \* SSHClient objects created in one run
MaxSockets == 2         \* duplex terminal connections opened in one run
MaxSources == 3         \* sources of one batch request
MaxEntries == 2         \* entries of a listed directory
MaxDepth == 2           \* segments of a requested directory path
MaxLen == 3             \* characters of a path interpolated into a command
MaxSweeps == 4          \* reaper intervals the clock may run through
TicksPerSweep == 1      \* clock steps per reaper interval

\* ------------------------------------------------------ program constants
IDLE_TIMEOUT_MS == 15 * 60 * 1000
SWEEP_INTERVAL_MS == 5 * 60 * 1000

Slots == {"left", "right"}
Keys == {"pemA"}
Configs == {"hostA"}
None == "none"                 \* Map.get(...) === undefined, for keys
NoConn == [id |-> "none"]      \* Map.get(...) === undefined, for entries
NoTime == -1

Sessions == {"default", "dev"}  \* ?session=..., "default" when not given
NoShell == 0                   \* terminalSessions.get(...) === undefined
NoClient == 0                  \* a duplex connection without a remote slot
NoStatus == 1005               \* ws.close() without a code
PolicyViolation == 1008
InternalError == 1011

TickMs == SWEEP_INTERVAL_MS \div TicksPerSweep
MaxTime == MaxSweeps * SWEEP_INTERVAL_MS

VARIABLES
    pemKeys,       \* Map<string, Buffer>: slot -> key, None when absent
    connections,   \* Map<string, SSHConnection>: slot -> entry, None when absent
    transports,    \* every SSHClient created so far, in creation order
    inflight,      \* transports whose handle an unfinished operation holds
    now,           \* Date.now()
    nextSweep,     \* time at which the setInterval callback next fires
    lastActivity,  \* history: per recorded slot, time of its last get/connect
    last,          \* history: the last call or event and its outcome
    terminalSessions,  \* Map<string, ChildProcess>: session id -> local shell
    sockets,       \* every duplex connection accepted so far, with its unit
    delivery,      \* one message event and what its handler did with it
    batch,         \* the batch request being served and the handler's position
    results,       \* the results array of the batch handler
    present,       \* the sources of the request that exist on the source host
    attempt,       \* per source, the outcome of the delete the move phase tried
    landed,        \* the sources whose content is at their target path
    read,          \* the GET /api/files/read request being served
    listing,       \* the GET /api/files request being served and its answer
    escape,        \* a path, its shellEscape and what a POSIX shell reads
    upload         \* an uploaded file, where it was stored and its download

termvars == <<terminalSessions, sockets>>
msgvars == <<delivery>>
batchvars == <<batch, results, present, attempt, landed>>
filevars == <<read, listing, escape, upload>>
outsideRegistry == <<termvars, msgvars, batchvars, filevars>>
outsideBridge == <<msgvars, batchvars, filevars>>

vars == <<pemKeys, connections, transports, inflight, now, nextSweep,
          lastActivity, last, terminalSessions, sockets, delivery,
          batch, results, present, attempt, landed, read, listing, escape,
          upload>>

\* A transport is an SSHClient.  phase:
\*   "connecting" handshake pending (connect awaits "ready")
\*   "ready"      authenticated, sftp channel request pending
\*   "open"       sftp opened, close/error handlers registered
\*   "leaked"     authenticated, sftp request failed, connect threw
\*   "ended"      client.end() called, close event not yet delivered
\*   "errored"    error event delivered, close event not yet delivered
\*   "closed"     socket closed and every callback delivered: the handshake
\*                failed or timed out, or the close event was delivered; no
\*                code refers to the client any more
Live(t) == transports[t].phase \in {"ready", "open", "leaked"}
HasHandlers(t) == transports[t].phase \in {"open", "ended", "errored"}
ClosedClient == [slot |-> None, config |-> None, phase |-> "closed"]

\* ------------------------------------------------------------ pure reads
hasPemKey(s) == pemKeys[s] # None

isConnected(s) == connections[s] # NoConn

getConnectionConfig(s) ==
    IF connections[s] # NoConn THEN connections[s].config ELSE None

\* what getSftp / getClient hand back: the handle, or the thrown error
NotConnected == [err |-> "NotConnected"]

getSftp(s) ==
    IF connections[s] = NoConn THEN NotConnected
    ELSE [handle |-> connections[s].sftp]

getClient(s) ==
    IF connections[s] = NoConn THEN NotConnected
    ELSE [handle |-> connections[s].client]

\* --------------------------------------------------------------- helpers
\* a close/error handler that only logs
DeletedNoop(conns, s) == conns

\* a handler that clears the whole registry
DeletedAll(conns, s) == [x \in Slots |-> NoConn]

\* connections.delete(id)
Deleted(conns, s) == [conns EXCEPT ![s] = NoConn]

\* a get that hands the entry back without refreshing it
TouchStale(conn, t) == conn

\* conn.lastUsed = Date.now()
Touch(conn, t) == [conn EXCEPT !.lastUsed = t]

\* a reaper that adds the sweep interval to the threshold
IsIdleLax(conn, t) == t - conn.lastUsed > IDLE_TIMEOUT_MS + SWEEP_INTERVAL_MS

\* now - conn.lastUsed > IDLE_TIMEOUT_MS
IsIdle(conn, t) == t - conn.lastUsed > IDLE_TIMEOUT_MS

\* the registry entry written by connect
NewEntry(s, t, t_sftp, cfg, time) ==
    [id |-> s, client |-> t, sftp |-> t_sftp, config |-> cfg, lastUsed |-> time]

\* transports recorded for the slots of S
ClientsOf(S) == {connections[s].client : s \in {x \in S : connections[x] # NoConn}}

\* conn.client.end() for the slots of S; for the slots of thrown the call
\* throws and the transport is left as it was
EndClients(S, thrown) ==
    [t \in DOMAIN transports |->
        IF t \in ClientsOf(S \ thrown)
        THEN [transports[t] EXCEPT !.phase = "ended"]
        ELSE transports[t]]

\* a disconnect that ends the client and leaves the removal to the close handler
DisconnectedConnsLazy(S, thrown) == connections

\* a disconnect whose connections.delete sits inside the try block
DisconnectedConnsInTry(S, thrown) ==
    [s \in Slots |-> IF s \in S \ thrown THEN NoConn ELSE connections[s]]

\* disconnect(id) for every id of S: the entries are removed, also those of
\* thrown, whose client.end() threw inside the try block
DisconnectedConns(S, thrown) ==
    [s \in Slots |-> IF s \in S THEN NoConn ELSE connections[s]]

\* history of activity, kept only while the slot has an entry
Activity(acted) ==
    [s \in Slots |->
        IF connections'[s] = NoConn THEN NoTime
        ELSE IF s \in acted THEN now ELSE lastActivity[s]]

\* ------------------------------------------------------------------ Init
\* no file request is being served
FilesIdle ==
    /\ read = [phase |-> "idle"]
    /\ listing = [phase |-> "idle"]
    /\ escape = [phase |-> "idle"]
    /\ upload = [phase |-> "idle"]

Init ==
    /\ pemKeys = [s \in Slots |-> None]
    /\ connections = [s \in Slots |-> NoConn]
    /\ transports = <<>>
    /\ inflight = {}
    /\ now = 0
    /\ nextSweep = SWEEP_INTERVAL_MS
    /\ lastActivity = [s \in Slots |-> NoTime]
    /\ last = [op |-> "init"]
    /\ terminalSessions = [sid \in Sessions |-> NoShell]
    /\ sockets = <<>>
    /\ delivery = [kind |-> None]
    /\ batch = [phase |-> "idle"]
    /\ results = <<>>
    /\ present = {}
    /\ attempt = <<>>
    /\ landed = {}
    /\ FilesIdle

\* --------------------------------------------------------------- actions
storePemKey(s, k) ==
    /\ pemKeys' = [pemKeys EXCEPT ![s] = k]
    /\ last' = [op |-> "store", slot |-> s]
    /\ UNCHANGED <<outsideRegistry, connections, transports, inflight, now, nextSweep, lastActivity>>

\* a connect that starts the handshake without looking the key up
connectNoKeyCheck(s, cfg) ==
    \E thrown \in SUBSET (IF connections[s] = NoConn THEN {} ELSE {s}) :
        /\ connections' = DisconnectedConns({s}, thrown)
        /\ Len(transports) < MaxTransports
        /\ transports' = Append(EndClients({s}, thrown),
               [slot |-> s, config |-> cfg, phase |-> "connecting"])
        /\ last' = [op |-> "connect", slot |-> s, err |-> None]
        /\ lastActivity' = Activity({})
        /\ UNCHANGED <<outsideRegistry, pemKeys, inflight, now, nextSweep>>

\* connect, up to its first await: tear down an existing entry, look the key
\* up, create the client and start the handshake
connect(s, cfg) ==
    \E thrown \in SUBSET (IF connections[s] = NoConn THEN {} ELSE {s}) :
        /\ connections' = DisconnectedConns({s}, thrown)
        /\ IF pemKeys[s] = None
           THEN /\ transports' = EndClients({s}, thrown)
                /\ last' = [op |-> "connect", slot |-> s, err |-> "CredentialMissing"]
           ELSE /\ Len(transports) < MaxTransports
                /\ transports' = Append(EndClients({s}, thrown),
                       [slot |-> s, config |-> cfg, phase |-> "connecting"])
                /\ last' = [op |-> "connect", slot |-> s, err |-> None]
        /\ lastActivity' = Activity({})
        /\ UNCHANGED <<outsideRegistry, pemKeys, inflight, now, nextSweep>>

\* the handshake fails or times out: connect throws
HandshakeFail(t) ==
    /\ transports[t].phase = "connecting"
    /\ transports' = [transports EXCEPT ![t] = ClosedClient]
    /\ last' = [op |-> "connectFailed", slot |-> transports[t].slot]
    /\ UNCHANGED <<outsideRegistry, pemKeys, connections, inflight, now, nextSweep, lastActivity>>

\* "ready": connect goes on to request the sftp channel
HandshakeReady(t) ==
    /\ transports[t].phase = "connecting"
    /\ transports' = [transports EXCEPT ![t].phase = "ready"]
    /\ last' = [op |-> "ready"]
    /\ UNCHANGED <<outsideRegistry, pemKeys, connections, inflight, now, nextSweep, lastActivity>>

\* client.sftp calls back with an error: connect throws and does not end the
\* client; the transport is still up, or went down under the request
SftpFail(t) ==
    /\ transports[t].phase = "ready"
    /\ \E c \in {[transports[t] EXCEPT !.phase = "leaked"], ClosedClient} :
        transports' = [transports EXCEPT ![t] = c]
    /\ last' = [op |-> "connectFailed", slot |-> transports[t].slot]
    /\ UNCHANGED <<outsideRegistry, pemKeys, connections, inflight, now, nextSweep, lastActivity>>

\* client.sftp calls back with the channel: the handlers are registered and
\* the entry is written
SftpOpen(t) ==
    /\ transports[t].phase = "ready"
    /\ transports' = [transports EXCEPT ![t].phase = "open"]
    /\ connections' = [connections EXCEPT ![transports[t].slot] =
            NewEntry(transports[t].slot, t, t, transports[t].config, now)]
    /\ lastActivity' = Activity({transports[t].slot})
    /\ last' = [op |-> "connected", slot |-> transports[t].slot]
    /\ UNCHANGED <<outsideRegistry, pemKeys, inflight, now, nextSweep>>

\* the "close" handler registered by connect; whatever still runs on the
\* transport fails with it
CloseEvent(t) ==
    /\ HasHandlers(t)
    /\ transports' = [transports EXCEPT ![t] = ClosedClient]
    /\ connections' = Deleted(connections, transports[t].slot)
    /\ inflight' = inflight \ {t}
    /\ lastActivity' = Activity({})
    /\ last' = [op |-> "close", slot |-> transports[t].slot,
                recorded |-> getClient(transports[t].slot) = [handle |-> t]]
    /\ UNCHANGED <<outsideRegistry, pemKeys, now, nextSweep>>

\* the "error" handler registered by connect
ErrorEvent(t) ==
    /\ transports[t].phase = "open"
    /\ transports' = [transports EXCEPT ![t].phase = "errored"]
    /\ connections' = Deleted(connections, transports[t].slot)
    /\ lastActivity' = Activity({})
    /\ last' = [op |-> "error", slot |-> transports[t].slot,
                recorded |-> getClient(transports[t].slot) = [handle |-> t]]
    /\ UNCHANGED <<outsideRegistry, pemKeys, inflight, now, nextSweep>>

\* getSftp / getClient, by way of getConnection: throws for an absent slot,
\* refreshes lastUsed otherwise
GetHandle(s) ==
    /\ IF connections[s] = NoConn
       THEN /\ last' = [op |-> "get", slot |-> s, err |-> "NotConnected"]
            /\ UNCHANGED <<connections, lastActivity>>
       ELSE /\ connections' = [connections EXCEPT ![s] = Touch(@, now)]
            /\ lastActivity' = Activity({s})
            /\ last' = [op |-> "get", slot |-> s, err |-> None]
    /\ UNCHANGED <<outsideRegistry, pemKeys, transports, inflight, now, nextSweep>>

\* a request handler or the terminal bridge obtains the handle with getSftp /
\* getClient and starts an operation on it: a transfer, a remote shell
UseHandle(s) ==
    /\ connections[s] # NoConn
    /\ connections' = [connections EXCEPT ![s] = Touch(@, now)]
    /\ inflight' = inflight \cup {connections[s].client}
    /\ lastActivity' = Activity({s})
    /\ last' = [op |-> "get", slot |-> s, err |-> None]
    /\ UNCHANGED <<outsideRegistry, pemKeys, transports, now, nextSweep>>

\* the operation finishes: the transfer completes or fails, the duplex
\* connection of a remote shell closes
EndUse(t) ==
    /\ t \in inflight
    /\ inflight' = inflight \ {t}
    /\ last' = [op |-> "done"]
    /\ UNCHANGED <<outsideRegistry, pemKeys, connections, transports, now, nextSweep, lastActivity>>

\* a disconnect that also forgets the slot's key
disconnectDroppingKey(s) ==
    \E thrown \in SUBSET (IF connections[s] = NoConn THEN {} ELSE {s}) :
        /\ transports' = EndClients({s}, thrown)
        /\ connections' = DisconnectedConns({s}, thrown)
        /\ pemKeys' = [pemKeys EXCEPT ![s] = None]
        /\ lastActivity' = Activity({})
        /\ last' = [op |-> "disconnect", slot |-> s, had |-> connections[s] # NoConn,
                    threw |-> thrown # {}]
        /\ UNCHANGED <<outsideRegistry, inflight, now, nextSweep>>

disconnect(s) ==
    \E thrown \in SUBSET (IF connections[s] = NoConn THEN {} ELSE {s}) :
        /\ transports' = EndClients({s}, thrown)
        /\ connections' = DisconnectedConns({s}, thrown)
        /\ lastActivity' = Activity({})
        /\ last' = [op |-> "disconnect", slot |-> s, had |-> connections[s] # NoConn,
                    threw |-> thrown # {}]
        /\ UNCHANGED <<outsideRegistry, pemKeys, inflight, now, nextSweep>>

\* a disconnectAll that stops after the first id
TrackedSlotsFirstOnly ==
    IF connections["left"] # NoConn THEN {"left"}
    ELSE {s \in Slots : connections[s] # NoConn}

\* the ids disconnectAll walks: Array.from(connections.keys())
TrackedSlots == {s \in Slots : connections[s] # NoConn}

disconnectAll ==
    \E thrown \in SUBSET TrackedSlots :
        /\ transports' = EndClients(TrackedSlots, thrown)
        /\ connections' = DisconnectedConns(TrackedSlots, thrown)
        /\ lastActivity' = Activity({})
        /\ last' = [op |-> "disconnectAll", threw |-> ClientsOf(thrown)]
        /\ UNCHANGED <<outsideRegistry, pemKeys, inflight, now, nextSweep>>

\* time passes; the interval timer fires when it is due
Tick ==
    /\ now < MaxTime
    /\ now + TickMs <= nextSweep
    /\ now' = now + TickMs
    /\ last' = [op |-> "tick"]
    /\ UNCHANGED <<outsideRegistry, pemKeys, connections, transports, inflight, nextSweep, lastActivity>>

\* the slots the reaper disconnects at time t
IdleSlots(t) == {s \in Slots : connections[s] # NoConn /\ IsIdle(connections[s], t)}

\* the setInterval callback
Sweep ==
    /\ now = nextSweep
    /\ \E thrown \in SUBSET IdleSlots(now) :
        /\ transports' = EndClients(IdleSlots(now), thrown)
        /\ connections' = DisconnectedConns(IdleSlots(now), thrown)
        /\ last' = [op |-> "reap", evicted |-> IdleSlots(now)]
    /\ nextSweep' = nextSweep + SWEEP_INTERVAL_MS
    /\ lastActivity' = Activity({})
    /\ UNCHANGED <<outsideRegistry, pemKeys, inflight, now>>

Next ==
    \/ \E s \in Slots, k \in Keys : storePemKey(s, k)
    \/ \E s \in Slots, cfg \in Configs : connect(s, cfg)
    \/ \E t \in DOMAIN transports : HandshakeFail(t)
    \/ \E t \in DOMAIN transports : HandshakeReady(t)
    \/ \E t \in DOMAIN transports : SftpFail(t)
    \/ \E t \in DOMAIN transports : SftpOpen(t)
    \/ \E t \in DOMAIN transports : CloseEvent(t)
    \/ \E t \in DOMAIN transports : ErrorEvent(t)
    \/ \E s \in Slots : GetHandle(s)
    \/ \E s \in Slots : disconnect(s)
    \/ disconnectAll
    \/ Tick
    \/ Sweep

\* the registry under requests, transport events and the reaper
Spec == Init /\ [][Next]_vars

\* the same, with the operations that run on the handles they obtained
NextUse ==
    \/ Next
    \/ \E s \in Slots : UseHandle(s)
    \/ \E t \in DOMAIN transports : EndUse(t)

SpecUse == Init /\ [][NextUse]_vars

\* ---- GET /api/ssh/status and getConnectionConfig
\* a read that goes through getConnection and refreshes lastUsed
PeekedTouching(conns, s, t) ==
    [conns EXCEPT ![s] = IF @ = NoConn THEN @ ELSE Touch(@, t)]

\* the registry after connections.has(id) / connections.get(id)?.config
Peeked(conns, s, t) == conns

\* GET /api/ssh/status: isConnected and hasPemKey
Status(s) ==
    /\ connections' = Peeked(connections, s, now)
    /\ last' = [op |-> "status", slot |-> s, connected |-> isConnected(s),
                hasPemKey |-> hasPemKey(s)]
    /\ UNCHANGED <<outsideRegistry, pemKeys, transports, inflight, now,
                   nextSweep, lastActivity>>

\* getConnectionConfig
ReadConfig(s) ==
    /\ connections' = Peeked(connections, s, now)
    /\ last' = [op |-> "config", slot |-> s, config |-> getConnectionConfig(s)]
    /\ UNCHANGED <<outsideRegistry, pemKeys, transports, inflight, now,
                   nextSweep, lastActivity>>

\* the registry polled by status while connections come, are used and idle
NextStatus ==
    \/ \E s \in Slots, k \in Keys : storePemKey(s, k)
    \/ \E s \in Slots, cfg \in Configs : connect(s, cfg)
    \/ \E t \in DOMAIN transports : HandshakeReady(t)
    \/ \E t \in DOMAIN transports : SftpOpen(t)
    \/ \E s \in Slots : GetHandle(s)
    \/ \E s \in Slots : disconnect(s)
    \/ Tick
    \/ Sweep
    \/ \E s \in Slots : Status(s)
    \/ \E s \in Slots : ReadConfig(s)

SpecStatus == Init /\ [][NextStatus]_vars

\* ------------------------------------------------------ terminal bridge
\* A duplex connection and the execution unit its handler started:
\*   session   the session id of the request
\*   slot      the connectionId of the request, None for a local shell
\*   ws        readyState: "open", "closing" (close called or error raised,
\*             close event pending), "closed" (close event delivered)
\*   unit      "none"     nothing was started
\*             "opening"  client.shell called, callback pending
\*             "running"  local shell spawned / remote channel open
\*             "stopping" kill() / stream.close() called, close event pending
\*             "closed"   the unit's close event was delivered
\*             "failed"   client.shell called back with an error
\*   client    the transport of a remote channel
\*   strayInput history: the other connections whose messages were written
\*             to the unit's input
IsLocal(c) == sockets[c].slot = None

\* shell.kill() / stream.close()
Stopped(u) == IF u = "running" THEN "stopping" ELSE u

\* ws.close(...) by the server
WsClosedBy(sock) ==
    IF sock.ws = "open" THEN [sock EXCEPT !.ws = "closing"] ELSE sock

\* the message/close/error handlers of the duplex connection exist: the local
\* branch registers them at once, the remote one inside the shell callback
HandlersRegistered(c) ==
    IsLocal(c) \/ sockets[c].unit \in {"running", "stopping", "closed"}

\* shell.stdin.writable / the channel accepts stream.write
Writable(c) == sockets[c].unit \in {"running", "stopping"}

\* ---- what a message handler does with one message: JSON.parse(data) throws,
\* or yields null, a scalar or an array (no field "type"), or an object
FieldValues == {"absent", "zero", "number", "string", "null"}
Messages ==
    {[parse |-> p, type |-> "absent", cols |-> "absent", rows |-> "absent"] :
        p \in {"throws", "null", "scalar"}}
    \cup [parse : {"object"}, type : {"absent", "resize", "other"},
          cols : FieldValues, rows : FieldValues]

\* parsed.type: reading it off null throws, like JSON.parse, into the catch
ParsedType(m) ==
    CASE m.parse \in {"throws", "null"} -> "throws"
      [] m.parse = "scalar" -> "absent"
      [] OTHER -> m.type

\* JavaScript truthiness of a field value
Truthy(v) == v \in {"number", "string"}

\* local handler: if (parsed.type === "resize") return;
LocalResize(m) == ParsedType(m) = "resize"

\* remote handler: parsed.type === "resize" && parsed.cols && parsed.rows
RemoteResize(m) ==
    ParsedType(m) = "resize" /\ Truthy(m.cols) /\ Truthy(m.rows)

\* "resize": consumed; "input": data goes on to the unit's input
Handled(kind, m) ==
    IF kind = "local"
    THEN IF LocalResize(m) THEN "resize" ELSE "input"
    ELSE IF RemoteResize(m) THEN "resize" ELSE "input"

\* one message event on a connection of the given kind, handler run to its end
Deliver(kind, m) ==
    /\ delivery' = [kind |-> kind, msg |-> m, outcome |-> Handled(kind, m)]
    /\ UNCHANGED <<pemKeys, connections, transports, inflight, now, nextSweep,
                   lastActivity, last, termvars, batchvars, filevars>>

NextMsg == \E kind \in {"local", "remote"}, m \in Messages : Deliver(kind, m)

\* the message handlers alone, over every shape of message
SpecMsg == Init /\ [][NextMsg]_vars

\* ---- the connection handler and the handlers it registers
regstate == <<pemKeys, connections, transports, inflight, now, nextSweep,
              lastActivity>>

\* the messages a terminal session is driven with: keystrokes and a resize
Keystrokes == [parse |-> "throws", type |-> "absent", cols |-> "absent",
               rows |-> "absent"]
ResizeMsg == [parse |-> "object", type |-> "resize", cols |-> "number",
              rows |-> "number"]
TermMessages == {Keystrokes, ResizeMsg}

\* a local connection: the session's recorded shell is killed and forgotten,
\* a shell is spawned and recorded, the handlers are registered
OpenLocal(sid) ==
    /\ Len(sockets) < MaxSockets
    /\ sockets' = Append(
            [c \in DOMAIN sockets |->
                IF c = terminalSessions[sid]
                THEN [sockets[c] EXCEPT !.unit = Stopped(@)]
                ELSE sockets[c]],
            [session |-> sid, slot |-> None, ws |-> "open",
             unit |-> "running", client |-> NoClient, strayInput |-> {}])
    /\ terminalSessions' = [terminalSessions EXCEPT ![sid] = Len(sockets) + 1]
    /\ last' = [op |-> "wsOpen", socket |-> Len(sockets) + 1, err |-> None]
    /\ UNCHANGED <<regstate, outsideBridge>>

\* a rejected remote connection that goes on to spawn the local shell
RejectedSocketSpawns(sid, s) ==
    [session |-> sid, slot |-> s, ws |-> "closing",
     unit |-> "running", client |-> NoClient, strayInput |-> {}]

\* getClient threw: ws.close(1008, ...); return
RejectedSocket(sid, s) ==
    [session |-> sid, slot |-> s, ws |-> "closing",
     unit |-> "none", client |-> NoClient, strayInput |-> {}]

\* a remote connection: getClient, then client.shell is requested; the
\* handler returns before the local branch
OpenRemote(sid, s) ==
    /\ Len(sockets) < MaxSockets
    /\ IF getClient(s) = NotConnected
       THEN /\ sockets' = Append(sockets, RejectedSocket(sid, s))
            /\ last' = [op |-> "wsOpen", socket |-> Len(sockets) + 1,
                        err |-> "NotConnected", code |-> PolicyViolation]
            /\ UNCHANGED <<connections, lastActivity>>
       ELSE /\ connections' = [connections EXCEPT ![s] = Touch(@, now)]
            /\ lastActivity' = Activity({s})
            /\ sockets' = Append(sockets,
                    [session |-> sid, slot |-> s, ws |-> "open",
                     unit |-> "opening",
                     client |-> getClient(s).handle, strayInput |-> {}])
            /\ last' = [op |-> "wsOpen", socket |-> Len(sockets) + 1,
                        err |-> None]
    /\ UNCHANGED <<pemKeys, transports, inflight, now, nextSweep,
                   terminalSessions, outsideBridge>>

\* client.shell calls back with the stream: the stream and ws handlers are
\* registered
ShellOpened(c) ==
    /\ sockets[c].unit = "opening"
    /\ transports[sockets[c].client].phase = "open"
    /\ sockets' = [sockets EXCEPT ![c].unit = "running"]
    /\ last' = [op |-> "shell", socket |-> c]
    /\ UNCHANGED <<regstate, terminalSessions, outsideBridge>>

\* client.shell calls back with an error: ws.close(1011, ...)
ShellFailed(c) ==
    /\ sockets[c].unit = "opening"
    /\ sockets' = [sockets EXCEPT
            ![c] = WsClosedBy([@ EXCEPT !.unit = "failed"])]
    /\ last' = [op |-> "shellFailed", socket |-> c, code |-> InternalError]
    /\ UNCHANGED <<regstate, terminalSessions, outsideBridge>>

\* a handler that writes to the shell recorded for its session id
WriteTargetBySession(c) ==
    IF terminalSessions[sockets[c].session] # NoShell
    THEN terminalSessions[sockets[c].session]
    ELSE c

\* the unit a message handler writes to: the shell / stream of its closure
WriteTarget(c) == c

\* a message event: dropped while no handler is registered, consumed as a
\* resize, or written to the unit's input when that still accepts writes
Message(c, m) ==
    /\ sockets[c].ws \in {"open", "closing"}
    /\ LET kind == IF IsLocal(c) THEN "local" ELSE "remote"
           writes == /\ HandlersRegistered(c)
                     /\ Handled(kind, m) = "input"
                     /\ Writable(WriteTarget(c))
       IN /\ sockets' = IF writes
                        THEN [sockets EXCEPT
                                ![WriteTarget(c)].strayInput =
                                    @ \cup ({c} \ {WriteTarget(c)})]
                        ELSE sockets
          /\ last' = [op |-> "message", socket |-> c, wrote |-> writes]
    /\ UNCHANGED <<regstate, terminalSessions, outsideBridge>>

\* what the ws "close" and "error" handlers do: local, shell.kill() and
\* terminalSessions.delete(sessionId); remote, stream.close()
AfterWsDown(c, state) ==
    /\ sockets' = [sockets EXCEPT
            ![c] = [@ EXCEPT !.ws = state,
                             !.unit = IF HandlersRegistered(c)
                                      THEN Stopped(@) ELSE @]]
    /\ terminalSessions' =
            IF IsLocal(c)
            THEN [terminalSessions EXCEPT ![sockets[c].session] = NoShell]
            ELSE terminalSessions

\* the ws "close" event
WsClose(c) ==
    /\ sockets[c].ws \in {"open", "closing"}
    /\ AfterWsDown(c, "closed")
    /\ last' = [op |-> "wsClose", socket |-> c]
    /\ UNCHANGED <<regstate, outsideBridge>>

\* the ws "error" event; the close event follows
WsError(c) ==
    /\ sockets[c].ws = "open"
    /\ AfterWsDown(c, "closing")
    /\ last' = [op |-> "wsError", socket |-> c]
    /\ UNCHANGED <<regstate, outsideBridge>>

\* a unit close handler that leaves the duplex connection open
WsAfterUnitCloseKeeps(sock) == sock

\* if (ws.readyState === WebSocket.OPEN) ws.close()
WsAfterUnitClose(sock) == WsClosedBy(sock)

\* the unit's "close" event: the local shell exited, the remote channel
\* closed (on its own, or because its transport went down)
UnitClose(c) ==
    /\ sockets[c].unit \in {"running", "stopping"}
    /\ sockets' = [sockets EXCEPT
            ![c] = WsAfterUnitClose([@ EXCEPT !.unit = "closed"])]
    /\ terminalSessions' =
            IF IsLocal(c)
            THEN [terminalSessions EXCEPT ![sockets[c].session] = NoShell]
            ELSE terminalSessions
    /\ last' = [op |-> "unitClose", socket |-> c, code |-> NoStatus]
    /\ UNCHANGED <<regstate, outsideBridge>>

\* the registry after storePemKey and a connect of "left" that went through
InitTerm ==
    /\ pemKeys = [s \in Slots |-> IF s = "left" THEN "pemA" ELSE None]
    /\ connections = [s \in Slots |->
            IF s = "left" THEN NewEntry("left", 1, 1, "hostA", 0) ELSE NoConn]
    /\ transports = <<[slot |-> "left", config |-> "hostA", phase |-> "open"]>>
    /\ inflight = {}
    /\ now = 0
    /\ nextSweep = SWEEP_INTERVAL_MS
    /\ lastActivity = [s \in Slots |-> IF s = "left" THEN 0 ELSE NoTime]
    /\ last = [op |-> "connected", slot |-> "left"]
    /\ terminalSessions = [sid \in Sessions |-> NoShell]
    /\ sockets = <<>>
    /\ delivery = [kind |-> None]
    /\ batch = [phase |-> "idle"]
    /\ results = <<>>
    /\ present = {}
    /\ attempt = <<>>
    /\ landed = {}
    /\ FilesIdle

NextTerm ==
    \/ \E sid \in Sessions : OpenLocal(sid)
    \/ \E sid \in Sessions, s \in Slots : OpenRemote(sid, s)
    \/ \E c \in DOMAIN sockets : ShellOpened(c)
    \/ \E c \in DOMAIN sockets : ShellFailed(c)
    \/ \E c \in DOMAIN sockets, m \in TermMessages : Message(c, m)
    \/ \E c \in DOMAIN sockets : WsClose(c)
    \/ \E c \in DOMAIN sockets : WsError(c)
    \/ \E c \in DOMAIN sockets : UnitClose(c)
    \/ \E s \in Slots : disconnect(s)
    \/ \E t \in DOMAIN transports : CloseEvent(t)

\* the terminal bridge over a registry with one connected slot
SpecTerm == InitTerm /\ [][NextTerm]_vars

\* a data handler that sends on the connection recorded for its session id
OutputTargetBySession(c) ==
    IF terminalSessions[sockets[c].session] # NoShell
    THEN terminalSessions[sockets[c].session]
    ELSE c

\* the duplex connection a data handler sends on: the ws of its closure
OutputTarget(c) == c

\* a "data" event of the unit's stdout or stderr: sent if the connection is
\* OPEN, dropped otherwise
UnitOutput(c) ==
    /\ sockets[c].unit \in {"running", "stopping"}
    /\ last' = [op |-> "output", socket |-> c,
                sent |-> IF sockets[OutputTarget(c)].ws = "open"
                         THEN {OutputTarget(c)} ELSE {}]
    /\ UNCHANGED <<regstate, termvars, outsideBridge>>

NextOut ==
    \/ \E sid \in Sessions : OpenLocal(sid)
    \/ \E sid \in Sessions, s \in Slots : OpenRemote(sid, s)
    \/ \E c \in DOMAIN sockets : ShellOpened(c)
    \/ \E c \in DOMAIN sockets : ShellFailed(c)
    \/ \E c \in DOMAIN sockets : WsClose(c)
    \/ \E c \in DOMAIN sockets : WsError(c)
    \/ \E c \in DOMAIN sockets : UnitClose(c)
    \/ \E c \in DOMAIN sockets : UnitOutput(c)

\* the terminal bridge with the output of its units
SpecOut == InitTerm /\ [][NextOut]_vars

\* ------------------------------------------------------- batch endpoints
\* POST /api/files/copy, /move and /transfer.  A source is its index in the
\* request's sources array; the awaited file and transport operations of one
\* source succeed or throw, which the environment decides.
SlotArgs == {None} \cup Slots
\* destination: missing from the body, escaping the workspace root, naming
\* something that is not a directory, or naming a directory
Destinations == {"missing", "outside", "notdir", "dir"}

\* inplace: the destination names the directory the sources are in
Requests ==
    [op : {"copy", "move"}, src : SlotArgs, dst : {None},
     destination : Destinations, n : 0..MaxSources, operation : {None},
     inplace : {FALSE}]
    \cup
    [op : {"transfer"}, src : SlotArgs, dst : SlotArgs,
     destination : Destinations, n : 0..MaxSources,
     operation : {"copy", "move"}, inplace : BOOLEAN]

\* results.push({ source, dest: targetPath, success: true })
Success(i) == [source |-> i, dest |-> "target", success |-> TRUE, error |-> None]

\* results.push({ source, dest: "", success: false, error: err.message })
Failure(i) == [source |-> i, dest |-> "", success |-> FALSE, error |-> "message"]

\* getSftp / getClient for the slots of seq in turn: the slots reached before
\* one of them throws have their lastUsed refreshed
Reached(seq) ==
    {seq[k] : k \in {j \in DOMAIN seq :
                        \A h \in 1..j : connections[seq[h]] # NoConn}}

Touched(S) ==
    [s \in Slots |-> IF s \in S THEN Touch(connections[s], now)
                     ELSE connections[s]]

\* the request is validated; copy and move resolve a remote slot, or check a
\* local destination, before the first source; any throw answers 400
Receive(req) ==
    /\ batch.phase = "idle"
    /\ LET bad == req.n = 0 \/ req.destination = "missing"
           single == req.op \in {"copy", "move"}
           remote == single /\ req.src # None
           resolved == remote /\ ~bad /\ connections[req.src] # NoConn
           rejected == \/ bad
                       \/ remote /\ ~resolved
                       \/ single /\ ~remote /\ req.destination # "dir"
       IN /\ batch' = [op |-> req.op, src |-> req.src, dst |-> req.dst,
                       destination |-> req.destination, n |-> req.n,
                       operation |-> req.operation, inplace |-> req.inplace,
                       pos |-> 0,
                       phase |-> IF rejected THEN "rejected" ELSE "items"]
          /\ connections' = IF resolved THEN Touched({req.src})
                            ELSE connections
          /\ lastActivity' = Activity(IF resolved THEN {req.src} ELSE {})
    /\ results' = <<>>
    /\ present' = 1..req.n
    /\ attempt' = [i \in 1..req.n |-> "none"]
    /\ landed' = {}
    /\ UNCHANGED <<pemKeys, transports, inflight, now, nextSweep, last,
                   termvars, msgvars, filevars>>

\* the slots one source of a transfer resolves, in the order of the calls
NeededSlots(b) ==
    IF b.op # "transfer" THEN <<>>
    ELSE IF b.src = None /\ b.dst # None THEN <<b.dst>>
    ELSE IF b.src # None /\ b.dst = None THEN <<b.src>>
    ELSE IF b.src # None /\ b.dst # None THEN <<b.src, b.dst>>
    ELSE <<>>

\* what one iteration of the source loop pushes
Pushed(b, i, ok) ==
    LET pathThrows == b.op = "transfer" /\ b.dst = None
                      /\ b.destination = "outside"
        unresolved == \E k \in DOMAIN NeededSlots(b) :
                        connections[NeededSlots(b)[k]] = NoConn
        noBranch == b.op = "transfer" /\ b.src = None /\ b.dst = None
    IN IF pathThrows \/ unresolved THEN <<Failure(i)>>
       ELSE IF noBranch THEN <<>>
       ELSE IF ok THEN <<Success(i)>> ELSE <<Failure(i)>>

\* one iteration of the source loop; after the last one the handler answers,
\* or a transfer with operation "move" goes on to its delete loop
Item ==
    /\ batch.phase = "items"
    /\ \E ok \in BOOLEAN :
        LET i == batch.pos + 1
            pushed == Pushed(batch, i, ok)
            touched == IF batch.op = "transfer" /\ batch.dst = None
                          /\ batch.destination = "outside"
                       THEN {} ELSE Reached(NeededSlots(batch))
            deleting == /\ i = batch.n
                        /\ batch.op = "transfer" /\ batch.operation = "move"
                        /\ Len(results) + Len(pushed) > 0
        IN /\ results' = results \o pushed
           /\ present' = IF batch.op = "move" /\ pushed = <<Success(i)>>
                         THEN present \ {i} ELSE present
           /\ landed' = IF pushed = <<Success(i)>>
                        THEN landed \cup {i} ELSE landed
           /\ connections' = Touched(touched)
           /\ lastActivity' = Activity(touched)
           /\ batch' = [batch EXCEPT
                    !.pos = IF deleting THEN 0 ELSE i,
                    !.phase = IF i < batch.n THEN "items"
                              ELSE IF deleting THEN "deleting" ELSE "done"]
    /\ UNCHANGED <<pemKeys, transports, inflight, now, nextSweep, last,
                   attempt, termvars, msgvars, filevars>>

\* targetPath is the source path: the destination is the sources' directory
\* on the filesystem they are read from
SamePlace(b) == b.inplace /\ b.src = b.dst

\* a delete loop that does not skip failed results
ShouldDeleteAll(r) == TRUE

\* if (!result.success) continue;
ShouldDelete(r) == r.success

\* one iteration of the delete loop of a move transfer: a failed result is
\* skipped; otherwise the source is removed, and a throw is swallowed
Delete ==
    /\ batch.phase = "deleting"
    /\ \E ok \in BOOLEAN :
        LET k == batch.pos + 1
            r == results[k]
            tried == ShouldDelete(r)
            resolved == batch.src = None \/ connections[batch.src] # NoConn
            touched == IF tried /\ batch.src # None /\ resolved
                       THEN {batch.src} ELSE {}
        IN /\ attempt' = [attempt EXCEPT ![r.source] =
                    IF ~tried THEN @
                    ELSE IF resolved /\ ok THEN "ok" ELSE "failed"]
           /\ present' = IF tried /\ resolved /\ ok
                         THEN present \ {r.source} ELSE present
           /\ landed' = IF tried /\ resolved /\ ok /\ SamePlace(batch)
                        THEN landed \ {r.source} ELSE landed
           /\ connections' = Touched(touched)
           /\ lastActivity' = Activity(touched)
           /\ batch' = [batch EXCEPT
                    !.pos = k,
                    !.phase = IF k = Len(results) THEN "done" ELSE "deleting"]
    /\ UNCHANGED <<pemKeys, transports, inflight, now, nextSweep, last,
                   results, termvars, msgvars, filevars>>

\* one batch request over a registry with "left" connected, which may be
\* disconnected at any await
InitBatch ==
    /\ pemKeys = [s \in Slots |-> IF s = "left" THEN "pemA" ELSE None]
    /\ connections = [s \in Slots |->
            IF s = "left" THEN NewEntry("left", 1, 1, "hostA", 0) ELSE NoConn]
    /\ transports = <<[slot |-> "left", config |-> "hostA", phase |-> "open"]>>
    /\ inflight = {}
    /\ now = 0
    /\ nextSweep = SWEEP_INTERVAL_MS
    /\ lastActivity = [s \in Slots |-> IF s = "left" THEN 0 ELSE NoTime]
    /\ last = [op |-> "connected", slot |-> "left"]
    /\ terminalSessions = [sid \in Sessions |-> NoShell]
    /\ sockets = <<>>
    /\ delivery = [kind |-> None]
    /\ batch = [phase |-> "idle"]
    /\ results = <<>>
    /\ present = {}
    /\ attempt = <<>>
    /\ landed = {}
    /\ FilesIdle

NextBatch ==
    \/ \E req \in Requests : Receive(req)
    \/ Item
    \/ Delete
    \/ \E s \in Slots : disconnect(s)

SpecBatch == InitBatch /\ [][NextBatch]_vars

\* ------------------------------------------------- single-path endpoints
\* the registry after storePemKey and a connect of "left" that went through
LeftConnected ==
    /\ pemKeys = [s \in Slots |-> IF s = "left" THEN "pemA" ELSE None]
    /\ connections = [s \in Slots |->
            IF s = "left" THEN NewEntry("left", 1, 1, "hostA", 0) ELSE NoConn]
    /\ transports = <<[slot |-> "left", config |-> "hostA", phase |-> "open"]>>
    /\ inflight = {}
    /\ now = 0
    /\ nextSweep = SWEEP_INTERVAL_MS
    /\ lastActivity = [s \in Slots |-> IF s = "left" THEN 0 ELSE NoTime]
    /\ last = [op |-> "connected", slot |-> "left"]

\* no duplex connection, no message, no batch
RoutesIdle ==
    /\ terminalSessions = [sid \in Sessions |-> NoShell]
    /\ sockets = <<>>
    /\ delivery = [kind |-> None]
    /\ batch = [phase |-> "idle"]
    /\ results = <<>>
    /\ present = {}
    /\ attempt = <<>>
    /\ landed = {}

\* ---- GET /api/files/read
PREVIEW_LIMIT == 1024 * 1024
\* what the path names, and the size stat reports for it
PathKinds == {"absent", "dir", "file"}
Sizes == {0, PREVIEW_LIMIT - 1, PREVIEW_LIMIT, PREVIEW_LIMIT + 1,
          2 * PREVIEW_LIMIT}

\* a size test that lets every file through
TooLargeNever(size) == FALSE

\* stat.size > 1024 * 1024
TooLarge(size) == size > PREVIEW_LIMIT

\* the handler up to its first await: the path is required, a remote slot is
\* resolved, stat is requested
ReadRequest(slot, given, kind, size) ==
    /\ read.phase = "idle"
    /\ LET resolved == given /\ slot # None /\ connections[slot] # NoConn
           failed == ~given \/ (slot # None /\ ~resolved)
       IN /\ read' = [phase |-> IF failed THEN "failed" ELSE "stat",
                      slot |-> slot, kind |-> kind, size |-> size,
                      statted |-> FALSE, reads |-> 0]
          /\ connections' = IF resolved THEN Touched({slot}) ELSE connections
          /\ lastActivity' = Activity(IF resolved THEN {slot} ELSE {})
    /\ UNCHANGED <<pemKeys, transports, inflight, now, nextSweep, last,
                   termvars, msgvars, batchvars, listing, escape, upload>>

\* stat has answered: it threw, or the path is a directory, or the file is
\* too large, and the handler answers 400; otherwise the content read is
\* requested
StatDone ==
    /\ read.phase = "stat"
    /\ read' = IF read.kind = "absent"
               THEN [read EXCEPT !.phase = "failed"]
               ELSE IF read.kind = "dir" \/ TooLarge(read.size)
               THEN [read EXCEPT !.phase = "failed", !.statted = TRUE]
               ELSE [read EXCEPT !.phase = "reading", !.statted = TRUE,
                                 !.reads = @ + 1]
    /\ UNCHANGED <<regstate, last, termvars, msgvars, batchvars,
                   listing, escape, upload>>

\* the content read has answered or thrown
ReadDone(ok) ==
    /\ read.phase = "reading"
    /\ read' = [read EXCEPT !.phase = IF ok THEN "done" ELSE "failed"]
    /\ UNCHANGED <<regstate, last, termvars, msgvars, batchvars,
                   listing, escape, upload>>

InitRead == LeftConnected /\ RoutesIdle /\ FilesIdle

NextRead ==
    \/ \E slot \in SlotArgs, given \in BOOLEAN, kind \in PathKinds,
          size \in Sizes : ReadRequest(slot, given, kind, size)
    \/ StatDone
    \/ \E ok \in BOOLEAN : ReadDone(ok)
    \/ \E s \in Slots : disconnect(s)

SpecRead == InitRead /\ [][NextRead]_vars

\* ---- GET /api/files: listDirectory and listDirectoryRemote
\* A path is the sequence of its segments, "/" being <<>>; a name is the
\* sequence of its characters.
WORKSPACE_ROOT == <<"srv", "workspace">>
Segments == {"d", ".."}
RequestPaths == UNION {[1..k -> Segments] : k \in 0..MaxDepth}
EntryNames == {<<".">>, <<"a">>, <<".", "a">>, <<"a", ".">>}
\* what readdir yields: names in directory order, each with whether stat
\* succeeds on it
DirItems == [name : EntryNames, readable : BOOLEAN]
DirContents ==
    UNION {{q \in [1..k -> DirItems] :
                \A i, j \in 1..k : i # j => q[i].name # q[j].name} :
           k \in 0..MaxEntries}

\* parent: null, or a path
NullParent == <<>>
ParentPath(p) == <<p>>

\* path.dirname
dirname(p) == IF p = <<>> THEN <<>> ELSE SubSeq(p, 1, Len(p) - 1)

\* path.resolve(base, p): ".." steps up, never above "/"
RECURSIVE resolve(_, _)
resolve(base, p) ==
    IF p = <<>> THEN base
    ELSE IF Head(p) = ".." THEN resolve(dirname(base), Tail(p))
    ELSE resolve(Append(base, Head(p)), Tail(p))

IsPrefix(a, b) == Len(a) <= Len(b) /\ SubSeq(b, 1, Len(a)) = a

\* names that begin with two dots: the parent step, and an ordinary name
DotDotNames == {"..", "..a"}

\* path.relative(from, to)
RECURSIVE relative(_, _)
relative(from, to) ==
    IF IsPrefix(from, to) THEN SubSeq(to, Len(from) + 1, Len(to))
    ELSE <<"..">> \o relative(dirname(from), to)

\* relative.startsWith("..")
StartsWithDotDot(rel) == rel # <<>> /\ Head(rel) \in DotDotNames

\* normalizePath and normalizePathSync: the resolved path, or the traversal
\* error
normalizePath(p) ==
    LET resolved == resolve(WORKSPACE_ROOT, p)
    IN IF \/ StartsWithDotDot(relative(WORKSPACE_ROOT, resolved))
          \/ ~IsPrefix(WORKSPACE_ROOT, resolved)
       THEN [path |-> <<>>, err |-> "PathTraversal"]
       ELSE [path |-> resolved, err |-> None]

\* toRelativePath: path.relative(WORKSPACE_ROOT, absolutePath) under "/"
toRelativePath(abs) == relative(WORKSPACE_ROOT, abs)

\* the home directory of a connection; the config token stands for its
\* username
HomeOf(cfg) == <<"home", cfg>>

\* a filter that drops every name containing a dot
StartsWithDotAnywhere(name) == \E i \in DOMAIN name : name[i] = "."

\* item.name.startsWith(".")
StartsWithDot(name) == Len(name) >= 1 /\ name[1] = "."

\* the entry loop: dot names are skipped; locally an item whose stat throws
\* is skipped too
RECURSIVE Entries(_, _)
Entries(items, local) ==
    IF items = <<>> THEN <<>>
    ELSE IF StartsWithDot(Head(items).name) THEN Entries(Tail(items), local)
    ELSE IF local /\ ~Head(items).readable THEN Entries(Tail(items), local)
    ELSE <<Head(items).name>> \o Entries(Tail(items), local)

\* list, up to the readdir request: the local path is normalized, the remote
\* slot is resolved and a root request is sent to the home directory; walk
\* is the history of the directories listed on the way to this request
ListStart(slot, dirPath, walk) ==
    /\ LET resolved == slot # None /\ connections[slot] # NoConn
           failed == IF slot = None THEN normalizePath(dirPath).err # None
                     ELSE ~resolved
           dir == IF slot = None THEN normalizePath(dirPath).path
                  ELSE IF dirPath # <<>> THEN dirPath
                  ELSE IF getConnectionConfig(slot) # None
                  THEN HomeOf(getConnectionConfig(slot))
                  ELSE <<>>
       IN /\ listing' = [phase |-> IF failed THEN "failed" ELSE "readdir",
                         slot |-> slot, request |-> dirPath, dir |-> dir,
                         items |-> <<>>, entries |-> <<>>, path |-> <<>>,
                         parent |-> NullParent, walk |-> walk]
          /\ connections' = IF resolved THEN Touched({slot}) ELSE connections
          /\ lastActivity' = Activity(IF resolved THEN {slot} ELSE {})
    /\ UNCHANGED <<pemKeys, transports, inflight, now, nextSweep, last,
                   termvars, msgvars, batchvars, read, escape, upload>>

\* a first request
ListRequest(slot, dirPath) ==
    /\ listing.phase = "idle"
    /\ ListStart(slot, dirPath, <<>>)

\* no directory was listed twice
NoRepeat(walk) == \A i, j \in DOMAIN walk : i # j => walk[i] # walk[j]

\* the client lists the parent that the last listing returned
ListParent ==
    /\ listing.phase = "done"
    /\ listing.parent # NullParent
    /\ NoRepeat(listing.walk)
    /\ ListStart(listing.slot, listing.parent[1], listing.walk)

\* readdir has answered: it threw, or the entries are collected and the
\* listing is returned with its path and parent
ReaddirDone(items, ok) ==
    /\ listing.phase = "readdir"
    /\ listing' =
        IF ~ok THEN [listing EXCEPT !.phase = "failed"]
        ELSE IF listing.slot = None
        THEN [listing EXCEPT
                !.phase = "done", !.items = items,
                !.walk = Append(@, listing.dir),
                !.entries = Entries(items, TRUE),
                !.path = toRelativePath(listing.dir),
                !.parent = IF toRelativePath(listing.dir) = <<>>
                           THEN NullParent
                           ELSE ParentPath(toRelativePath(dirname(listing.dir)))]
        ELSE [listing EXCEPT
                !.phase = "done", !.items = items,
                !.walk = Append(@, listing.dir),
                !.entries = Entries(items, FALSE),
                !.path = listing.dir,
                !.parent = IF listing.dir = <<>> THEN NullParent
                           ELSE ParentPath(dirname(listing.dir))]
    /\ UNCHANGED <<regstate, last, termvars, msgvars, batchvars,
                   read, escape, upload>>

InitList == LeftConnected /\ RoutesIdle /\ FilesIdle

NextList ==
    \/ \E slot \in SlotArgs, dirPath \in RequestPaths : ListRequest(slot, dirPath)
    \/ ListParent
    \/ \E items \in DirContents, ok \in BOOLEAN : ReaddirDone(items, ok)

SpecList == InitList /\ [][NextList]_vars

\* ---- shellEscape and the remote commands built with it
\* A string is the sequence of its characters; the special ones are named.
SQ == "quote"
DQ == "doublequote"
SP == "space"
SEMI == "semicolon"
TICK == "backtick"
BS == "backslash"
Chars == {SQ, DQ, SP, SEMI, TICK, BS, "a"}
Strings == UNION {[1..k -> Chars] : k \in 0..MaxLen}

\* an escape that leaves embedded quotes alone
replaceQuotesNone(str) == str

\* str.replace: every quote becomes quote, backslash, quote, quote
RECURSIVE replaceQuotes(_)
replaceQuotes(str) ==
    IF str = <<>> THEN <<>>
    ELSE IF Head(str) = SQ
    THEN <<SQ, BS, SQ, SQ>> \o replaceQuotes(Tail(str))
    ELSE <<Head(str)>> \o replaceQuotes(Tail(str))

shellEscape(str) == <<SQ>> \o replaceQuotes(str) \o <<SQ>>

\* the command templates: a fixed prefix, then the escaped paths separated
\* by single spaces
Prefix(cmd) ==
    CASE cmd = "rm" -> <<"r", "m", SP, "-", "r", "f", SP>>
      [] cmd = "mkdir" -> <<"m", "k", "d", "i", "r", SP, "-", "p", SP>>
      [] cmd = "cp" -> <<"c", "p", SP, "-", "r", SP>>
      [] cmd = "tar" -> <<"t", "a", "r", SP, "c", "z", SP, "-", "C", SP>>

PrefixWords(cmd) ==
    CASE cmd = "rm" -> << <<"r", "m">>, <<"-", "r", "f">> >>
      [] cmd = "mkdir" -> << <<"m", "k", "d", "i", "r">>, <<"-", "p">> >>
      [] cmd = "cp" -> << <<"c", "p">>, <<"-", "r">> >>
      [] cmd = "tar" -> << <<"t", "a", "r">>, <<"c", "z">>, <<"-", "C">> >>

RECURSIVE JoinEscaped(_)
JoinEscaped(args) ==
    IF args = <<>> THEN <<>>
    ELSE IF Len(args) = 1 THEN shellEscape(Head(args))
    ELSE shellEscape(Head(args)) \o <<SP>> \o JoinEscaped(Tail(args))

CommandLine(cmd, args) == Prefix(cmd) \o JoinEscaped(args)

\* how a POSIX shell splits a command line into words.  st: the mode (plain,
\* single-quoted, double-quoted), the word being read, the words read, and
\* whether a second command was met (an unquoted semicolon or a backtick) or a quote
\* was left open
RECURSIVE ShellRead(_, _, _)
ShellRead(line, i, st) ==
    IF i > Len(line)
    THEN [words |-> IF st.inword THEN Append(st.words, st.cur) ELSE st.words,
          injected |-> st.injected \/ st.mode # "plain"]
    ELSE LET c == line[i]
             add(x) == [st EXCEPT !.cur = Append(@, x), !.inword = TRUE]
         IN CASE st.mode = "single" ->
                    IF c = SQ THEN ShellRead(line, i + 1, [st EXCEPT !.mode = "plain"])
                    ELSE ShellRead(line, i + 1, add(c))
              [] st.mode = "double" ->
                    IF c = DQ THEN ShellRead(line, i + 1, [st EXCEPT !.mode = "plain"])
                    ELSE IF c = TICK
                    THEN ShellRead(line, i + 1, [st EXCEPT !.injected = TRUE])
                    ELSE IF c = BS /\ i < Len(line)
                            /\ line[i + 1] \in {DQ, BS, TICK}
                    THEN ShellRead(line, i + 2, add(line[i + 1]))
                    ELSE ShellRead(line, i + 1, add(c))
              [] OTHER ->
                    IF c = SQ
                    THEN ShellRead(line, i + 1,
                            [st EXCEPT !.mode = "single", !.inword = TRUE])
                    ELSE IF c = DQ
                    THEN ShellRead(line, i + 1,
                            [st EXCEPT !.mode = "double", !.inword = TRUE])
                    ELSE IF c = BS /\ i < Len(line)
                    THEN ShellRead(line, i + 2, add(line[i + 1]))
                    ELSE IF c = SP
                    THEN ShellRead(line, i + 1,
                            IF st.inword
                            THEN [st EXCEPT !.words = Append(@, st.cur),
                                            !.cur = <<>>, !.inword = FALSE]
                            ELSE st)
                    ELSE IF c \in {SEMI, TICK}
                    THEN ShellRead(line, i + 1, [st EXCEPT !.injected = TRUE])
                    ELSE ShellRead(line, i + 1, add(c))

ShellWords(line) ==
    ShellRead(line, 1, [mode |-> "plain", cur |-> <<>>, inword |-> FALSE,
                        words |-> <<>>, injected |-> FALSE])

\* the second path of cp (the target) and of tar (the directory name)
SecondPaths == {<<"a">>, <<SQ, SEMI>>}

\* a handler builds a command around a path and the remote shell reads it
BuildCommand(cmd, str, second) ==
    /\ escape.phase = "idle"
    /\ LET args == IF cmd \in {"cp", "tar"} THEN <<str, second>> ELSE <<str>>
       IN escape' = [phase |-> "done", cmd |-> cmd, args |-> args,
                     escaped |-> ShellWords(shellEscape(str)),
                     read |-> ShellWords(CommandLine(cmd, args))]
    /\ UNCHANGED <<regstate, last, termvars, msgvars, batchvars,
                   read, listing, upload>>

InitEscape == LeftConnected /\ RoutesIdle /\ FilesIdle

NextEscape ==
    \E cmd \in {"rm", "mkdir", "cp", "tar"}, str \in Strings,
       second \in SecondPaths : BuildCommand(cmd, str, second)

SpecEscape == InitEscape /\ [][NextEscape]_vars

\* ---- POST /api/upload, POST /api/upload/remote and GET /api/download
\* file.originalname, a single path segment
FileNames == {"a", ".a", "..a"}
\* req.file.buffer / the bytes multer writes
Contents == UNION {[1..k -> {0, 1}] : k \in 0..MaxLen}

\* the local upload: multer stores the file under the normalized destination
\* and the handler returns its workspace-relative path
UploadLocal(dir, name, bytes, ok) ==
    /\ upload.phase = "idle"
    /\ LET dest == normalizePath(dir)
           stored == Append(dest.path, name)
       IN upload' =
            IF dest.err # None \/ ~ok
            THEN [phase |-> "failed", slot |-> None, bytes |-> bytes,
                  path |-> <<>>, file |-> <<>>, got |-> <<>>]
            ELSE [phase |-> "uploaded", slot |-> None, bytes |-> bytes,
                  path |-> toRelativePath(stored), file |-> stored,
                  got |-> <<>>]
    /\ UNCHANGED <<regstate, last, termvars, msgvars, batchvars,
                   read, listing, escape>>

\* the remote upload up to the write: the slot is resolved and the remote
\* path joined from the destination and the name
UploadRemote(slot, dir, name, bytes) ==
    /\ upload.phase = "idle"
    /\ LET resolved == slot # None /\ connections[slot] # NoConn
       IN /\ upload' =
                [phase |-> IF resolved THEN "writing" ELSE "failed",
                 slot |-> slot, bytes |-> bytes,
                 path |-> resolve(<<>>, Append(dir, name)),
                 file |-> <<>>, got |-> <<>>]
          /\ connections' = IF resolved THEN Touched({slot}) ELSE connections
          /\ lastActivity' = Activity(IF resolved THEN {slot} ELSE {})
    /\ UNCHANGED <<pemKeys, transports, inflight, now, nextSweep, last,
                   termvars, msgvars, batchvars, read, listing, escape>>

\* sftpWriteFile has closed the stream or failed
WriteDone(ok) ==
    /\ upload.phase = "writing"
    /\ upload' = IF ok
                 THEN [upload EXCEPT !.phase = "uploaded", !.file = upload.path]
                 ELSE [upload EXCEPT !.phase = "failed"]
    /\ UNCHANGED <<regstate, last, termvars, msgvars, batchvars,
                   read, listing, escape>>

\* download of the returned path on the backend of the upload, up to stat:
\* the local path is normalized, the remote slot is resolved
Download ==
    /\ upload.phase = "uploaded"
    /\ LET resolved == upload.slot # None /\ connections[upload.slot] # NoConn
       IN /\ upload' = [upload EXCEPT !.phase =
                IF upload.slot = None
                THEN IF normalizePath(upload.path).err # None THEN "rejected"
                     ELSE IF normalizePath(upload.path).path # upload.file
                     THEN "notfound"
                     ELSE "serving"
                ELSE IF ~resolved THEN "unreachable"
                ELSE IF upload.path # upload.file THEN "notfound"
                ELSE "serving"]
          /\ connections' = IF resolved THEN Touched({upload.slot})
                            ELSE connections
          /\ lastActivity' = Activity(IF resolved THEN {upload.slot} ELSE {})
    /\ UNCHANGED <<pemKeys, transports, inflight, now, nextSweep, last,
                   termvars, msgvars, batchvars, read, listing, escape>>

\* res.sendFile / createReadStream(filePath).pipe(res): the stored bytes are
\* streamed, or the read fails
Served(ok) ==
    /\ upload.phase = "serving"
    /\ upload' = IF ok
                 THEN [upload EXCEPT !.phase = "downloaded", !.got = upload.bytes]
                 ELSE [upload EXCEPT !.phase = "unreachable"]
    /\ UNCHANGED <<regstate, last, termvars, msgvars, batchvars,
                   read, listing, escape>>

InitUpload == LeftConnected /\ RoutesIdle /\ FilesIdle

NextUpload ==
    \/ \E dir \in RequestPaths, name \in FileNames, bytes \in Contents,
          ok \in BOOLEAN : UploadLocal(dir, name, bytes, ok)
    \/ \E slot \in SlotArgs, dir \in RequestPaths, name \in FileNames,
          bytes \in Contents : UploadRemote(slot, dir, name, bytes)
    \/ \E ok \in BOOLEAN : WriteDone(ok)
    \/ Download
    \/ \E ok \in BOOLEAN : Served(ok)
    \/ \E s \in Slots : disconnect(s)

SpecUpload == InitUpload /\ [][NextUpload]_vars

\* ------------------------------------------------------------ properties
regvars == <<pemKeys, connections, transports, inflight>>

LiveTransports(s) == {t \in DOMAIN transports : transports[t].slot = s /\ Live(t)}

\* C1: in every reachable state every slot has at most one live (authenticated,
\* not ended) transport, overlapping connect calls included.
C1_OneLiveTransportPerSlot ==
    \A s \in Slots : Cardinality(LiveTransports(s)) <= 1

\* C2: right after disconnect(slot) returns, status reports connected = false
\* and getSftp / getClient fail with the not-connected error.
C2_DisconnectThenNotConnected ==
    last.op = "disconnect" =>
        /\ ~isConnected(last.slot)
        /\ getSftp(last.slot) = NotConnected
        /\ getClient(last.slot) = NotConnected

C2_Witness == last.op = "disconnect" /\ last.had

\* C3: a close or error event of the recorded transport removes the slot's
\* entry, and no entry ever holds a transport that has closed or errored, so
\* get never hands out a stale handle.
C3_NoStaleHandle ==
    /\ \A s \in Slots : connections[s] # NoConn =>
            /\ transports[connections[s].client].phase
                    \notin {"closed", "errored"}
            /\ transports[connections[s].sftp].phase
                    \notin {"closed", "errored"}
    /\ last.op \in {"close", "error"} => connections[last.slot] = NoConn

C3_Witness == last.op \in {"close", "error"} /\ last.recorded

\* C4: a reaper sweep never disconnects a slot whose handle an unfinished
\* operation still holds.
C4_ReaperSparesInFlight ==
    [][last'.op = "reap" =>
        \A s \in Slots :
            (connections[s] # NoConn /\ connections'[s] = NoConn)
                => connections[s].client \notin inflight]_vars

\* C5: a sweep disconnects a slot only if more than the idle threshold has
\* passed since the slot's last get or successful connect.
C5_EvictOnlyIdle ==
    [][last'.op = "reap" =>
        \A s \in Slots :
            (connections[s] # NoConn /\ connections'[s] = NoConn)
                => now - lastActivity[s] > IDLE_TIMEOUT_MS]_vars

C5_Witness ==
    /\ last.op = "reap"
    /\ last.evicted # {}
    /\ \E s \in Slots \ last.evicted :
            connections[s] # NoConn /\ now - lastActivity[s] = IDLE_TIMEOUT_MS

\* C6: a connected slot that gets no further get is gone after the first sweep
\* that finds it idle beyond the threshold, so no entry is ever idle for more
\* than the threshold plus one sweep interval.
C6_IdleEvicted ==
    /\ \A s \in Slots : connections[s] # NoConn =>
            now - lastActivity[s] <= IDLE_TIMEOUT_MS + SWEEP_INTERVAL_MS
    /\ last.op = "reap" =>
            \A s \in Slots : connections[s] # NoConn =>
                now - lastActivity[s] <= IDLE_TIMEOUT_MS

C6_Witness ==
    /\ last.op = "reap"
    /\ \E s \in last.evicted : connections[s] = NoConn /\ hasPemKey(s)

\* C7: after a connect has failed the slot has no registry entry.
C7_FailedConnectLeavesNoEntry ==
    (\/ last.op = "connectFailed"
     \/ (last.op = "connect" /\ last.err = "CredentialMissing"))
        => connections[last.slot] = NoConn

\* C8: connect on a slot without a stored key fails with the credential-missing
\* error, creates no transport and leaves the registry as it was.
C8_MissingCredential ==
    [][last'.op = "connect" =>
        /\ (pemKeys[last'.slot] = None) <=> (last'.err = "CredentialMissing")
        /\ last'.err = "CredentialMissing" => UNCHANGED regvars]_vars

C8_Witness ==
    /\ last.op = "connect"
    /\ last.err = "CredentialMissing"
    /\ \E s \in Slots : isConnected(s)

\* C9: only store changes the credential store; once a slot has a key it
\* keeps having one.
C9_KeysOnlyStored ==
    [][/\ pemKeys' # pemKeys => last'.op = "store"
       /\ \A s \in Slots : hasPemKey(s) => hasPemKey(s)']_vars

C9_Witness ==
    /\ last.op \in {"disconnect", "close", "error", "connectFailed"}
    /\ hasPemKey(last.slot)
    /\ \E t \in DOMAIN transports :
            transports[t].phase \in {"ended", "closed"}

\* C10: disconnect of an absent slot changes nothing, a second disconnect
\* right after the first changes nothing, and the entry is removed even when
\* ending the transport throws.
C10_DisconnectIdempotent ==
    [][last'.op = "disconnect" =>
        /\ connections'[last'.slot] = NoConn
        /\ ~last'.had => UNCHANGED regvars
        /\ (last.op = "disconnect" /\ last.slot = last'.slot)
                => UNCHANGED regvars]_vars

C10_Witness == last.op = "disconnect" /\ last.had /\ last.threw

\* C11: when disconnectAll returns no slot has an entry, and every transport
\* that was recorded when it was called has been asked to end: it is ended,
\* or its end() call threw.
C11_DisconnectAllEmpties ==
    [][last'.op = "disconnectAll" =>
        /\ \A s \in Slots : connections'[s] = NoConn
        /\ \A t \in ClientsOf(Slots) :
                transports'[t].phase = "ended" \/ t \in last'.threw]_vars

C11_Witness ==
    /\ last.op = "disconnectAll"
    /\ Cardinality({t \in DOMAIN transports : transports[t].phase = "ended"}) >= 2

\* units of a session id that run and have not been asked to stop
LiveUnits(sid) ==
    {c \in DOMAIN sockets : sockets[c].session = sid /\ sockets[c].unit = "running"}

\* C12: in every reachable state of the bridge every session id has at most
\* one running execution unit, local or remote.
C12_OneUnitPerSession ==
    \A sid \in Sessions : Cardinality(LiveUnits(sid)) <= 1

\* C13: no unit's input ever receives a message that arrived on a duplex
\* connection other than the one the unit was created for.
C13_InputOnlyFromOwnSocket ==
    \A c \in DOMAIN sockets : sockets[c].strayInput = {}

\* input was written on a superseded local connection while the shell that
\* replaced it runs
C13_Witness ==
    /\ last.op = "message" /\ last.wrote
    /\ sockets[last.socket].unit = "stopping"
    /\ \E c \in DOMAIN sockets :
            /\ c > last.socket
            /\ sockets[c].session = sockets[last.socket].session
            /\ terminalSessions[sockets[c].session] = c
            /\ sockets[c].unit = "running"

\* C14: once the close event of a duplex connection has been delivered, the
\* unit created for it is not left running.
C14_ClosedSocketStopsUnit ==
    \A c \in DOMAIN sockets :
        sockets[c].ws = "closed" => sockets[c].unit # "running"

\* C15: once a unit's close event has been delivered, its duplex connection
\* is closed or closing, and a local unit is no longer the recorded shell of
\* its session id.
C15_UnitCloseClosesSocket ==
    \A c \in DOMAIN sockets :
        sockets[c].unit = "closed" =>
            /\ sockets[c].ws # "open"
            /\ IsLocal(c) => terminalSessions[sockets[c].session] # c

\* a remote channel went down with its transport, and a local shell exited,
\* each under a connection that was open until then
C15_Witness ==
    /\ last.op = "unitClose"
    /\ sockets[last.socket].ws = "closing"
    /\ \E c, d \in DOMAIN sockets :
            /\ IsLocal(c) /\ ~IsLocal(d)
            /\ sockets[c].unit = "closed" /\ sockets[d].unit = "closed"
            /\ transports[sockets[d].client].phase = "closed"

\* C16: a connection handler that finds no registry entry for the slot it
\* names closes the connection with code 1008, starts no unit, and leaves the
\* session map, the other connections and the registry as they were.
C16_UnresolvedSlotRejected ==
    [][(/\ Len(sockets') = Len(sockets) + 1
        /\ sockets'[Len(sockets')].slot # None
        /\ connections[sockets'[Len(sockets')].slot] = NoConn)
       => /\ sockets'[Len(sockets')].ws = "closing"
          /\ last'.code = PolicyViolation
          /\ sockets'[Len(sockets')].unit = "none"
          /\ sockets'[Len(sockets')].client = NoClient
          /\ SubSeq(sockets', 1, Len(sockets)) = sockets
          /\ UNCHANGED <<terminalSessions, regvars>>]_vars

\* a connection for a slot whose entry was removed is rejected while another
\* session's shell runs
C16_Witness ==
    /\ last.op = "wsOpen" /\ last.err = "NotConnected"
    /\ sockets[last.socket].slot = "left"
    /\ \E c \in DOMAIN sockets : sockets[c].unit = "running"

\* C17: the local and the remote message handler consume a message as a
\* resize exactly when it is a JSON object with type "resize" and numeric
\* cols and rows, and pass every other message on to the unit's input.
C17_ResizeExactlyWhenShaped ==
    delivery.kind # None =>
        (delivery.outcome = "resize" <=>
            /\ delivery.msg.parse = "object"
            /\ delivery.msg.type = "resize"
            /\ delivery.msg.cols \in {"number", "zero"}
            /\ delivery.msg.rows \in {"number", "zero"})

\* C18: a copy or move request with at least one source and a destination
\* that is a directory is answered with one result per source, in request
\* order, on the local and on the remote backend; a failed source has
\* success = false, a non-empty error and an empty dest.
C18_CopyMoveOneResultPerSource ==
    (/\ batch.phase \in {"done", "rejected"}
     /\ batch.op \in {"copy", "move"}
     /\ batch.n >= 1
     /\ batch.destination = "dir")
    => /\ batch.phase = "done"
       /\ Len(results) = batch.n
       /\ \A i \in DOMAIN results :
            /\ results[i].source = i
            /\ ~results[i].success =>
                    /\ results[i].error \notin {None, ""}
                    /\ results[i].dest = ""

\* C19: a transfer request is answered with one result per source, in request
\* order, whichever of the source and destination slots are given.
C19_TransferOneResultPerSource ==
    (batch.phase = "done" /\ batch.op = "transfer")
    => /\ Len(results) = batch.n
       /\ \A i \in DOMAIN results : results[i].source = i

\* C20, as stated: when a transfer with operation "move" has been answered,
\* every source whose transfer succeeded is gone from the source host, and
\* for every source whose transfer failed no delete was tried and the source
\* is still there.
C20_MoveRemovesTransferred ==
    (batch.phase = "done" /\ batch.op = "transfer" /\ batch.operation = "move")
    => \A k \in DOMAIN results :
            /\ results[k].success => results[k].source \notin present
            /\ ~results[k].success =>
                    /\ attempt[results[k].source] = "none"
                    /\ results[k].source \in present

\* C20, amended: when a transfer with operation "move" has been answered, a
\* delete was tried for every source whose transfer succeeded, and the source
\* is gone if that delete went through; for every source whose transfer failed
\* no delete was tried and the source is still there.
C20_MoveDeletesBestEffort ==
    (batch.phase = "done" /\ batch.op = "transfer" /\ batch.operation = "move")
    => \A k \in DOMAIN results :
            /\ results[k].success =>
                    /\ attempt[results[k].source] # "none"
                    /\ attempt[results[k].source] = "ok" =>
                            results[k].source \notin present
            /\ ~results[k].success =>
                    /\ attempt[results[k].source] = "none"
                    /\ results[k].source \in present

\* a remote-to-local move was answered with one source removed, one whose
\* delete failed and one whose transfer failed
C20_Witness ==
    /\ batch.phase = "done" /\ batch.op = "transfer" /\ batch.operation = "move"
    /\ batch.src # None /\ batch.dst = None
    /\ \E i, j, k \in DOMAIN results :
            /\ results[i].success /\ attempt[i] = "ok" /\ i \notin present
            /\ results[j].success /\ attempt[j] = "failed"
            /\ ~results[k].success /\ k \in present

\* C21: a copy, move or transfer request without sources, without a
\* destination, or with a destination that is not an existing directory
\* inside the workspace, is rejected as a whole: no source is processed, no
\* result is produced and no source is removed.
C21_InvalidBatchRejected ==
    (/\ batch.phase # "idle"
     /\ batch.n = 0 \/ batch.destination # "dir")
    => /\ batch.phase = "rejected"
       /\ results = <<>>
       /\ present = 1..batch.n

\* C22: a content read is requested only after stat has shown a file of at
\* most 1 MiB (1048576 bytes), on the local and the remote backend; for a
\* directory or a larger file the request fails and no content read is
\* ever requested.
C22_ReadOnlyAfterStat ==
    /\ read.phase # "idle" /\ read.reads > 0 =>
            /\ read.statted
            /\ read.kind = "file"
            /\ read.size <= 1048576
    /\ read.phase \in {"reading", "done", "failed"}
       /\ read.statted
       /\ (read.kind = "dir" \/ read.size > 1048576) =>
            /\ read.phase = "failed"
            /\ read.reads = 0

\* a remote file of exactly 1 MiB was read, after its stat
C22_Witness ==
    /\ read.phase = "done" /\ read.slot = "left"
    /\ read.size = 1048576 /\ read.reads = 1

\* C23: a returned listing has no entry whose name starts with ".", and has
\* every entry of the directory whose name does not start with "." and
\* which is readable (every such entry, on the remote backend).
C23_ListHidesDotNamesOnly ==
    listing.phase = "done" =>
        /\ \A i \in DOMAIN listing.entries : listing.entries[i][1] # "."
        /\ \A i \in DOMAIN listing.items :
                (/\ listing.items[i].name[1] # "."
                 /\ listing.items[i].readable \/ listing.slot # None)
                => \E j \in DOMAIN listing.entries :
                        listing.entries[j] = listing.items[i].name

\* a local directory with a hidden name and a name with a dot inside
C23_Witness ==
    /\ listing.phase = "done" /\ listing.slot = None
    /\ listing.entries = << <<"a", ".">> >>
    /\ \E i \in DOMAIN listing.items : listing.items[i].name = <<".", "a">>

\* C24: in a returned listing, parent is null exactly when the path is the
\* root of its namespace: the workspace root locally; remotely the
\* filesystem root or the home directory a root request resolves to.
C24_ParentNullIffRoot ==
    listing.phase = "done" =>
        (listing.parent = NullParent <=>
            IF listing.slot = None THEN listing.path = <<>>
            ELSE \/ listing.path = <<>>
                 \/ \E cfg \in Configs : listing.path = HomeOf(cfg))

\* C25: a POSIX shell reads shellEscape(s) as the single word s, and reads
\* every command built around escaped paths as the words of its template
\* followed by exactly the paths, without a second command.
C25_ShellEscapeRoundTrips ==
    escape.phase = "done" =>
        /\ escape.escaped = [words |-> <<escape.args[1]>>, injected |-> FALSE]
        /\ escape.read = [words |-> PrefixWords(escape.cmd) \o escape.args,
                          injected |-> FALSE]

\* a path made of a quote, a semicolon and a backtick went into rm -rf
C25_Witness ==
    /\ escape.phase = "done" /\ escape.cmd = "rm"
    /\ escape.args = << <<SQ, SEMI, TICK>> >>

\* C26: after an upload has succeeded, a download of the returned path on the
\* same backend is not turned away by the handler, and what it streams is
\* the uploaded bytes.
C26_DownloadReturnsUploaded ==
    /\ upload.phase \notin {"rejected", "notfound"}
    /\ upload.phase = "downloaded" => upload.got = upload.bytes

\* C27: a close or error event removes a registry entry only when it comes
\* from the transport that entry holds; the event of a superseded transport
\* leaves the newer entry of its slot in place.
C27_StaleEventKeepsNewerEntry ==
    [][(last'.op \in {"close", "error"} /\ connections[last'.slot] # NoConn)
            => last'.recorded]_vars

\* C29: a connect that was in progress when disconnect(slot) or disconnectAll
\* ran does not record the slot afterwards: the step that follows the
\* disconnect, before any new connect request, never makes the slot connected.
C29_DisconnectNotOverridden ==
    [][~ /\ last'.op = "connected"
         /\ \/ last.op = "disconnect" /\ last.slot = last'.slot
            \/ last.op = "disconnectAll"]_vars

\* C28: every running local shell is the one the session map records under
\* its session id; the events of a superseded connection or shell leave the
\* entry of the newer shell in place.
C28_LiveLocalShellRegistered ==
    \A c \in DOMAIN sockets :
        (IsLocal(c) /\ sockets[c].unit = "running")
            => terminalSessions[sockets[c].session] = c

\* C30: when a transfer with operation move has answered, the content of
\* every source reported success is at its target path, also when the
\* destination is the sources' own directory on the same filesystem.
C30_MovedContentAtDestination ==
    (batch.phase = "done" /\ batch.op = "transfer" /\ batch.operation = "move")
        => \A k \in DOMAIN results :
                results[k].success => results[k].source \in landed

\* C31: the chain of remote listings that follows the returned parent lists
\* no directory twice, so it ends at a listing whose parent is null.
C31_RemoteParentChainAcyclic ==
    listing.phase = "done" /\ listing.slot # None => NoRepeat(listing.walk)

\* C32: in every reachable state a slot that has a registry entry also has a
\* stored credential.
C32_ConnectedHasCredential ==
    \A s \in Slots : isConnected(s) => hasPemKey(s)

\* both slots are recorded, the second one just now
C32_Witness ==
    /\ \A s \in Slots : isConnected(s) /\ hasPemKey(s)
    /\ last = [op |-> "connected", slot |-> "right"]

\* C33: a status request and getConnectionConfig leave the registry, the
\* lastUsed timestamps included, and the credential store as they were.
C33_StatusIsPureRead ==
    [][last'.op \in {"status", "config"} => UNCHANGED <<connections, pemKeys>>]_vars

\* status is polled on a connected slot some time after its last use
C33_Witness ==
    /\ last.op = "status" /\ last.connected /\ last.hasPemKey
    /\ now > connections[last.slot].lastUsed

\* C34: a store, connect, get, disconnect or transport event of one slot
\* leaves the entry, the lastUsed timestamp and the key of every other slot
\* as they were, and a sweep changes only the slots it evicts.
C34_SlotsIndependent ==
    [][\A b \in Slots :
        (\/ "slot" \in DOMAIN last' /\ last'.slot # b
         \/ last'.op = "reap" /\ b \notin last'.evicted)
            => connections'[b] = connections[b] /\ pemKeys'[b] = pemKeys[b]]_vars

\* the transport of one slot closed while the other slot is recorded
C34_Witness ==
    /\ last.op = "close" /\ last.slot = "left" /\ last.recorded
    /\ isConnected("right") /\ ~isConnected("left")

\* C35: the output of a unit is sent only on the duplex connection the unit
\* was created for, and only while that connection is open; it never goes
\* to another connection of the same session id.
C35_OutputOnlyOnOwnOpenSocket ==
    [][last'.op = "output" =>
        \A d \in last'.sent : d = last'.socket /\ sockets[d].ws = "open"]_vars

\* a unit sends on its own connection while another connection of the same
\* session id is open
C35_Witness ==
    /\ last.op = "output" /\ last.sent = {last.socket}
    /\ \E d \in DOMAIN sockets :
            /\ d # last.socket /\ sockets[d].ws = "open"
            /\ sockets[d].session = sockets[last.socket].session

TypeOK ==
    /\ pemKeys \in [Slots -> Keys \cup {None}]
    /\ \A s \in Slots : connections[s] # NoConn =>
            connections[s].client \in DOMAIN transports
    /\ Len(transports) <= MaxTransports
    /\ inflight \subseteq DOMAIN transports
    /\ now \in 0..MaxTime
    /\ terminalSessions \in [Sessions -> {NoShell} \cup DOMAIN sockets]
    /\ Len(sockets) <= MaxSockets
    /\ \A c \in DOMAIN sockets :
            /\ sockets[c].session \in Sessions
            /\ sockets[c].client \in {NoClient} \cup DOMAIN transports
            /\ sockets[c].strayInput \subseteq DOMAIN sockets
    /\ Len(results) <= MaxSources
    /\ batch.phase \in {"idle", "rejected", "items", "deleting", "done"}
    /\ batch.phase # "idle" =>
            /\ present \subseteq 1..batch.n
            /\ DOMAIN attempt = 1..batch.n
====
